---- MODULE Spec2Model ----
(***************************************************************************)
(* s3ttle backend: the session store, the message gateway, the usage       *)
(* ledger, the per-session promise lock of AIService.getAIResponse and the *)
(* POST /message route, as one state machine.                              *)
(*                                                                         *)
(* A JavaScript Map is a function whose DOMAIN is the set of its keys.     *)
(* A promise is named by the request that created it.  The event loop is   *)
(* modelled by its microtask queue: a macrotask (an arriving request, a    *)
(* model call completing) runs only when the microtask queue is empty.     *)
(***************************************************************************)
EXTENDS Integers, Sequences, FiniteSets, TLC

\* ------------------------------------------------------------------ bounds
\* Requests the clients send in the two-session specification (Spec).
MaxReq == 3
\* Requests the clients send in the one-session specification (SpecLock).
MaxLockReq == 6
\* Requests the clients send in the fair one-session specification (FairLock).
MaxFairReq == 5
\* Direct store operations in the store specification (SpecStore).
MaxStoreOps == 4
\* Requests the clients send in the full-route specification (SpecRoute).
MaxRouteReq == 2
\* Direct ledger operations in the ledger specification (SpecLedger).
MaxLedgerOps == 3
\* Requests the two partners send in the two-party specification (SpecPair).
MaxPairReq == 4
\* Requests the clients send in the specification with queries (SpecQuery).
MaxQueryReq == 3
\* Requests the clients send in the specification with mutating callers (SpecAlias).
MaxAliasReq == 2
\* Changes a caller makes to an array a query gave it (SpecAlias).
MaxMutations == 1

\* ------------------------------------------------------------- input sets
SessionIds == {"s1", "s2"}
HumanAuthors == {"partner_a", "partner_b"}
Authors == HumanAuthors \cup {"ai", "system_summary"}
Contents == {"hi"}
\* JavaScript's undefined, as a value of its own.
Undefined == "undefined"
Topics == {"Moving", Undefined}
DefaultTopic == "Untitled Decision"
AI_MODEL == "claude-sonnet-4-5-20250929"

\* Request bodies that pass the route's validation.
ValidBodies ==
  [sessionId : SessionIds, author : HumanAuthors, content : Contents, topic : Topics]

\* Request bodies the validation rejects: a session id, an author or a content
\* that is missing or empty, an author that is no partner.
InvalidBodies ==
  { [sessionId |-> "", author |-> "partner_a", content |-> "hi", topic |-> Undefined],
    [sessionId |-> "s1", author |-> "partner_a", content |-> Undefined, topic |-> Undefined],
    [sessionId |-> "s1", author |-> "ai", content |-> "hi", topic |-> Undefined],
    [sessionId |-> Undefined, author |-> "partner_b", content |-> "hi", topic |-> "Moving"],
    [sessionId |-> "s2", author |-> "", content |-> "hi", topic |-> Undefined],
    [sessionId |-> "s2", author |-> "partner_b", content |-> "", topic |-> Undefined],
    [sessionId |-> "s1", author |-> "system_summary", content |-> "hi", topic |-> Undefined] }

\* Bodies of the two-session specification (Spec): both sessions, both partners.
SpecBodies ==
  [sessionId : SessionIds, author : HumanAuthors, content : Contents, topic : {Undefined}]

\* Bodies of the one-session specification (SpecLock): every request is for s1.
LockBodies ==
  [sessionId : {"s1"}, author : {"partner_a"}, content : Contents, topic : {Undefined}]

\* What a model call can report: content blocks and token counts.
TextBlock == [type |-> "text", text |-> "ok"]
ToolBlock == [type |-> "tool_use", text |-> Undefined]
TextReply == [content |-> <<TextBlock>>, input_tokens |-> 120, output_tokens |-> 340]
ToolReply == [content |-> <<ToolBlock>>, input_tokens |-> 120, output_tokens |-> 7]
ModelReplies == {TextReply, ToolReply}
\* What a model call can throw with: the message of the SDK's error.
ConnectionError == "Connection error."
RateLimitError == "429 rate_limit_error"
ModelErrors == {ConnectionError, RateLimitError}

\* ------------------------------------------------------------------- maps
EmptyMap == [k \in {} |-> k]
MapHas(m, k) == k \in DOMAIN m
MapSet(m, k, v) == [x \in DOMAIN m \cup {k} |-> IF x = k THEN v ELSE m[x]]
MapDelete(m, k) == [x \in DOMAIN m \ {k} |-> m[x]]

NoError == "ok"

VARIABLES
  sessions,      \* SessionStore: Map sessionId -> Session
  messages,      \* SessionStore: Map sessionId -> Message[]
  usageStore,    \* UsageService: Map sessionId -> UsageRecord[]
  sessionLocks,  \* AIService: Map sessionId -> the request whose promise is stored
  resolved,      \* the requests whose lock promise has been resolved
  microtasks,    \* promise reaction jobs, in the order they were queued
  pc,            \* where each request is
  body,          \* each request's body
  awaiting,      \* existingLock: the request whose promise the turn found stored (0: none)
  history,       \* the history each turn read
  usageAtRead,   \* the session's usage records when the turn read the history
  claudeMessages,\* the request each turn sent to the model
  apiResponse,   \* what the model returned to each turn, if it returned
  result,        \* what getAIResponse returned or threw
  response,      \* the HTTP response of each request
  humanMessage,  \* the id of the message each request saved
  nextId,        \* the next fresh message id (uuid)
  now,           \* the clock, in ticks: it advances in every operation that reads it
  clients,       \* the bodies the clients may send
  replies,       \* the replies the model may give
  failures,      \* the error messages a model call may throw with
  quota,         \* how many requests the clients send
  arrived,       \* how many requests have arrived
  storeOps,      \* how many direct store operations have run
  lastOp         \* the last direct store operation, its arguments and outcome

vars ==
  << sessions, messages, usageStore, sessionLocks, resolved, microtasks, pc, body,
     awaiting, history, usageAtRead, claudeMessages, apiResponse, result, response,
     humanMessage,
     nextId, now, clients, replies, failures, quota, arrived, storeOps, lastOp >>

getMessagesOrEmpty(m, k) == IF MapHas(m, k) THEN m[k] ELSE <<>>

\* ------------------------------------------------------------ SessionStore
\* The store as a value, so that an operation is a function of the store.
Store == [sessions |-> sessions, messages |-> messages]

getSession(st, sessionId) ==
  IF MapHas(st.sessions, sessionId) THEN st.sessions[sessionId] ELSE Undefined

\* Faulty variant: the session is recorded without its message array.
createSessionWithoutMessages(st, sessionId, topic, t) ==
  [sessions |-> MapSet(st.sessions, sessionId,
                       [id |-> sessionId, topic |-> topic, createdAt |-> t]),
   messages |-> st.messages]

createSession(st, sessionId, topic, t) ==
  [sessions |-> MapSet(st.sessions, sessionId,
                       [id |-> sessionId, topic |-> topic, createdAt |-> t]),
   messages |-> MapSet(st.messages, sessionId, <<>>)]

\* Faulty variant: a missing message array is created instead of reported.
addMessageCreating(st, sessionId, message) ==
  [store |-> [st EXCEPT !.messages =
                MapSet(@, sessionId, getMessagesOrEmpty(@, sessionId) \o <<message>>)],
   error |-> NoError]

\* Faulty variant: the new message is put first.
addMessagePrepending(st, sessionId, message) ==
  IF ~MapHas(st.messages, sessionId)
  THEN [store |-> st, error |-> "SessionNotFound"]
  ELSE [store |-> [st EXCEPT !.messages[sessionId] = <<message>> \o @],
        error |-> NoError]

\* The store after the call and the error it threw, if any.
addMessage(st, sessionId, message) ==
  IF ~MapHas(st.messages, sessionId)
  THEN [store |-> st, error |-> "SessionNotFound"]
  ELSE [store |-> [st EXCEPT !.messages[sessionId] = Append(@, message)],
        error |-> NoError]

getMessages(st, sessionId) ==
  IF MapHas(st.messages, sessionId) THEN st.messages[sessionId] ELSE <<>>

\* Faulty variant: the session is created on every write, not only the first.
saveMessageRecreating(st, sessionId, author, content, topic, id, t) ==
  LET st1 == createSession(st, sessionId,
                           IF topic = Undefined THEN DefaultTopic ELSE topic, t)
      message == [id |-> id, sessionId |-> sessionId, author |-> author,
                  content |-> content, createdAt |-> t]
      added == addMessage(st1, sessionId, message)
  IN  [store |-> added.store, error |-> added.error, message |-> message]

\* Faulty variant: an absent topic is stored as it came.
saveMessageNoDefault(st, sessionId, author, content, topic, id, t) ==
  LET st1 == IF ~MapHas(st.sessions, sessionId)
             THEN createSession(st, sessionId, topic, t)
             ELSE st
      message == [id |-> id, sessionId |-> sessionId, author |-> author,
                  content |-> content, createdAt |-> t]
      added == addMessage(st1, sessionId, message)
  IN  [store |-> added.store, error |-> added.error, message |-> message]

\* Faulty variant: a topic given on a later write replaces the session's topic.
saveMessageRetopic(st, sessionId, author, content, topic, id, t) ==
  LET st1 == IF ~MapHas(st.sessions, sessionId)
             THEN createSession(st, sessionId,
                                IF topic = Undefined THEN DefaultTopic ELSE topic, t)
             ELSE IF topic = Undefined THEN st
             ELSE [st EXCEPT !.sessions[sessionId].topic = topic]
      message == [id |-> id, sessionId |-> sessionId, author |-> author,
                  content |-> content, createdAt |-> t]
      added == addMessage(st1, sessionId, message)
  IN  [store |-> added.store, error |-> added.error, message |-> message]

\* ---------------------------------------------------------- MessageService
saveMessage(st, sessionId, author, content, topic, id, t) ==
  LET st1 == IF ~MapHas(st.sessions, sessionId)
             THEN createSession(st, sessionId,
                                IF topic = Undefined THEN DefaultTopic ELSE topic, t)
             ELSE st
      message == [id |-> id, sessionId |-> sessionId, author |-> author,
                  content |-> content, createdAt |-> t]
      added == addMessage(st1, sessionId, message)
  IN  [store |-> added.store, error |-> added.error, message |-> message]

\* Faulty variant: the history misses the message saved last.
getConversationHistoryStale(st, sessionId) ==
  LET all == getMessages(st, sessionId)
  IN  IF all = <<>> THEN all ELSE SubSeq(all, 1, Len(all) - 1)

\* Faulty variant: the history leaves out the model's own messages.
getConversationHistoryHumanOnly(st, sessionId) ==
  LET IsHuman(m) == m.author # "ai"
  IN  SelectSeq(getMessages(st, sessionId), IsHuman)

getConversationHistory(st, sessionId) == getMessages(st, sessionId)

\* Faulty variant: the session's array is set anew on every call.
recordUsageReplacing(us, sessionId, inputTokens, outputTokens, model, t) ==
  MapSet(us, sessionId,
         << [sessionId |-> sessionId, inputTokens |-> inputTokens,
             outputTokens |-> outputTokens, model |-> model, createdAt |-> t] >>)

\* Faulty variant: the two token counts are stored in each other's field.
recordUsageSwapped(us, sessionId, inputTokens, outputTokens, model, t) ==
  LET us1 == IF ~MapHas(us, sessionId) THEN MapSet(us, sessionId, <<>>) ELSE us
  IN  [us1 EXCEPT ![sessionId] =
         Append(@, [sessionId |-> sessionId, inputTokens |-> outputTokens,
                    outputTokens |-> inputTokens, model |-> model, createdAt |-> t])]

\* Faulty variant: the new record is put first.
recordUsagePrepending(us, sessionId, inputTokens, outputTokens, model, t) ==
  LET us1 == IF ~MapHas(us, sessionId) THEN MapSet(us, sessionId, <<>>) ELSE us
  IN  [us1 EXCEPT ![sessionId] =
         << [sessionId |-> sessionId, inputTokens |-> inputTokens,
             outputTokens |-> outputTokens, model |-> model, createdAt |-> t] >> \o @]

\* ------------------------------------------------------------ UsageService
recordUsage(us, sessionId, inputTokens, outputTokens, model, t) ==
  LET us1 == IF ~MapHas(us, sessionId) THEN MapSet(us, sessionId, <<>>) ELSE us
  IN  [us1 EXCEPT ![sessionId] =
         Append(@, [sessionId |-> sessionId, inputTokens |-> inputTokens,
                    outputTokens |-> outputTokens, model |-> model, createdAt |-> t])]

getSessionUsageRecords(us, sessionId) ==
  IF MapHas(us, sessionId) THEN us[sessionId] ELSE <<>>

\* Amounts in USD are counted in billionths of a dollar, three decimals more
\* than toFixed(6) keeps.  The rates are 3.0 / 1_000_000 and 15.0 / 1_000_000 USD.
COST_PER_INPUT_TOKEN == 3000
COST_PER_OUTPUT_TOKEN == 15000

\* Faulty variant: the accumulator is replaced, not added to.
RECURSIVE ReduceInputTokensLast(_, _)
ReduceInputTokensLast(records, sum) ==
  IF records = <<>> THEN sum
  ELSE ReduceInputTokensLast(Tail(records), Head(records).inputTokens)

\* records.reduce((sum, r) => sum + r.inputTokens, 0), and the same for output.
RECURSIVE ReduceInputTokens(_, _)
ReduceInputTokens(records, sum) ==
  IF records = <<>> THEN sum
  ELSE ReduceInputTokens(Tail(records), sum + Head(records).inputTokens)
RECURSIVE ReduceOutputTokens(_, _)
ReduceOutputTokens(records, sum) ==
  IF records = <<>> THEN sum
  ELSE ReduceOutputTokens(Tail(records), sum + Head(records).outputTokens)

\* Faulty variant: the amount is rounded to five decimals.
toFixed5(x) ==
  IF x < 0 THEN 0 - ((0 - x + 5000) \div 10000) * 10000
  ELSE ((x + 5000) \div 10000) * 10000

\* Number.prototype.toFixed(6) and parseFloat of its digits: the nearest
\* amount with six decimals, the larger in magnitude when two are as near.
toFixed6(x) ==
  IF x < 0 THEN 0 - ((0 - x + 500) \div 1000) * 1000
  ELSE ((x + 500) \div 1000) * 1000

\* The amount before it is rounded.
UnroundedCost(totalInputTokens, totalOutputTokens) ==
  totalInputTokens * COST_PER_INPUT_TOKEN + totalOutputTokens * COST_PER_OUTPUT_TOKEN

getSessionUsage(us, sessionId) ==
  LET records == IF MapHas(us, sessionId) THEN us[sessionId] ELSE <<>>
      totalInputTokens == ReduceInputTokens(records, 0)
      totalOutputTokens == ReduceOutputTokens(records, 0)
  IN  [sessionId |-> sessionId,
       totalInputTokens |-> totalInputTokens,
       totalOutputTokens |-> totalOutputTokens,
       totalTokens |-> totalInputTokens + totalOutputTokens,
       apiCalls |-> Len(records),
       estimatedCostUsd |-> toFixed6(UnroundedCost(totalInputTokens, totalOutputTokens))]

\* Faulty variant: the two partner labels are exchanged.
formatMessagesForClaudeSwapped(msgs) ==
  [i \in 1..Len(msgs) |->
     IF msgs[i].author = "ai"
     THEN [role |-> "assistant", label |-> "", content |-> msgs[i].content]
     ELSE [role |-> "user",
           label |-> IF msgs[i].author = "partner_a" THEN "Partner B: " ELSE "Partner A: ",
           content |-> msgs[i].content]]

\* --------------------------------------------------------------- AIService
\* One request entry per message: the assistant role for the model's own
\* messages, the user role with a partner label for everything else.
formatMessagesForClaude(msgs) ==
  [i \in 1..Len(msgs) |->
     IF msgs[i].author = "ai"
     THEN [role |-> "assistant", label |-> "", content |-> msgs[i].content]
     ELSE [role |-> "user",
           label |-> IF msgs[i].author = "partner_a" THEN "Partner A: " ELSE "Partner B: ",
           content |-> msgs[i].content]]

\* response.content.find(block => block.type === 'text'), then its text or ''.
RECURSIVE FindText(_)
FindText(blocks) ==
  IF blocks = <<>> THEN <<>>
  ELSE IF Head(blocks).type = "text" THEN <<Head(blocks)>>
  ELSE FindText(Tail(blocks))

\* Faulty variant: the first block's text is taken, whatever the block's type.
ExtractTextFirstBlock(blocks) ==
  IF blocks = <<>> THEN "" ELSE blocks[1].text

ExtractText(blocks) ==
  LET textBlock == FindText(blocks)
  IN  IF textBlock # <<>> THEN textBlock[1].text ELSE ""

NoApiResponse == [content |-> <<>>, input_tokens |-> 0, output_tokens |-> 0]
NoResult ==
  [kind |-> "none", message |-> "", content |-> "", inputTokens |-> 0, outputTokens |-> 0]
NoResponse ==
  [status |-> 0, aiMessage |-> "", inputTokens |-> 0, outputTokens |-> 0, error |-> ""]

\* Faulty variant: one lock for all sessions.
LockKeyGlobal(sessionId) == "global"

\* The key under which a turn looks up, stores and deletes its lock.
LockKey(sessionId) == sessionId

\* The requests awaiting the promise of request r, in the order they began to wait.
Waiters(r) ==
  LET all == [i \in 1..arrived |-> i]
      Waits(q) == pc[q] = "waiting" /\ awaiting[q] = r
  IN  SelectSeq(all, Waits)

Job(kind, r) == [kind |-> kind, request |-> r]
ResumeJobs(ws) == [i \in 1..Len(ws) |-> Job("resume", ws[i])]

\* Faulty variant: the turn reads the store as it was before the route saved
\* the request's message.
AdmitBeforeSave(r, sessionId, st) ==
  LET h == getConversationHistory(Store, sessionId)
  IN  /\ sessionLocks' = MapSet(sessionLocks, LockKey(sessionId), r)
      /\ history' = [history EXCEPT ![r] = h]
      /\ usageAtRead' = [usageAtRead EXCEPT ![r] = getSessionUsageRecords(usageStore, sessionId)]
      /\ claudeMessages' = [claudeMessages EXCEPT ![r] = formatMessagesForClaude(h)]
      /\ pc' = [pc EXCEPT ![r] = "calling"]

\* Lines 125..142: create this turn's promise, store it, read the history,
\* format it and start the model call.  st is the store at that moment.
Admit(r, sessionId, st) ==
  LET h == getConversationHistory(st, sessionId)
  IN  /\ sessionLocks' = MapSet(sessionLocks, LockKey(sessionId), r)
      /\ history' = [history EXCEPT ![r] = h]
      /\ usageAtRead' = [usageAtRead EXCEPT ![r] = getSessionUsageRecords(usageStore, sessionId)]
      /\ claudeMessages' = [claudeMessages EXCEPT ![r] = formatMessagesForClaude(h)]
      /\ pc' = [pc EXCEPT ![r] = "calling"]

\* Faulty variant: the turn installs its lock without looking for one.
AcquireUnchecked(r, sessionId, st) ==
  /\ Admit(r, sessionId, st)
  /\ UNCHANGED << awaiting, microtasks >>

\* Lines 120..123, then Admit when there is nothing to await.
\* Awaiting a promise suspends the turn until a reaction job resumes it.
Acquire(r, sessionId, st) ==
  LET key == LockKey(sessionId)
  IN  IF MapHas(sessionLocks, key)
      THEN /\ awaiting' = [awaiting EXCEPT ![r] = sessionLocks[key]]
           /\ pc' = [pc EXCEPT ![r] = "waiting"]
           /\ microtasks' = IF sessionLocks[key] \in resolved
                            THEN Append(microtasks, Job("resume", r))
                            ELSE microtasks
           /\ UNCHANGED << sessionLocks, history, usageAtRead, claudeMessages >>
      ELSE /\ Admit(r, sessionId, st)
           /\ UNCHANGED << awaiting, microtasks >>

\* Faulty variant: the promise is resolved but the map entry stays.
ReleaseKeepingEntry(r) ==
  /\ resolved' = resolved \cup {r}
  /\ sessionLocks' = sessionLocks
  /\ microtasks' = microtasks \o ResumeJobs(Waiters(r)) \o <<Job("respond", r)>>

\* The finally block: resolve this turn's promise, which queues the reaction
\* jobs of its waiters, and delete the session's map entry.  The caller's own
\* continuation is queued when the async function settles, after them.
Release(r) ==
  /\ resolved' = resolved \cup {r}
  /\ sessionLocks' = MapDelete(sessionLocks, LockKey(body[r].sessionId))
  /\ microtasks' = microtasks \o ResumeJobs(Waiters(r)) \o <<Job("respond", r)>>

\* ------------------------------------------------------------------ routes
Falsy(v) == v = Undefined \/ v = ""

\* Faulty variant: only the presence of the three fields is checked.
InvalidPresenceOnly(b) == Falsy(b.sessionId) \/ Falsy(b.author) \/ Falsy(b.content)

Invalid(b) ==
  \/ Falsy(b.sessionId) \/ Falsy(b.author) \/ Falsy(b.content)
  \/ (b.author # "partner_a" /\ b.author # "partner_b")

\* POST /message up to its first suspension: validate, save the human
\* message, enter getAIResponse.
Post(b) ==
  LET r == arrived + 1
      saved == saveMessage(Store, b.sessionId, b.author, b.content, b.topic, nextId, now + 1)
  IN  /\ arrived < quota
      /\ microtasks = <<>>
      /\ b \in clients
      /\ arrived' = r
      /\ body' = [body EXCEPT ![r] = b]
      /\ IF Invalid(b)
         THEN /\ pc' = [pc EXCEPT ![r] = "rejected"]
              /\ response' = [response EXCEPT ![r] = [NoResponse EXCEPT !.status = 400,
                                !.error = IF Falsy(b.sessionId) \/ Falsy(b.author) \/ Falsy(b.content)
                                          THEN "sessionId, author, and content are required"
                                          ELSE "author must be partner_a or partner_b"]]
              /\ UNCHANGED << sessions, messages, nextId, now, humanMessage, sessionLocks,
                              history, usageAtRead, claudeMessages, awaiting, microtasks >>
         ELSE IF saved.error # NoError
         THEN /\ sessions' = saved.store.sessions
              /\ messages' = saved.store.messages
              /\ now' = now + 1
              /\ pc' = [pc EXCEPT ![r] = "failed"]
              /\ response' = [response EXCEPT ![r] = [NoResponse EXCEPT !.status = 500,
                                !.error = "Failed to process message"]]
              /\ UNCHANGED << nextId, humanMessage, sessionLocks, history, usageAtRead, claudeMessages,
                              awaiting, microtasks >>
         ELSE /\ sessions' = saved.store.sessions
              /\ messages' = saved.store.messages
              /\ nextId' = nextId + 1
              /\ now' = now + 1
              /\ humanMessage' = [humanMessage EXCEPT ![r] = saved.message.id]
              /\ Acquire(r, b.sessionId, saved.store)
              /\ UNCHANGED response
      /\ UNCHANGED << usageStore, resolved, apiResponse, result, clients, replies, failures, quota,
                      storeOps, lastOp >>

\* A waiting turn's reaction job runs: the turn continues after its await.
Resume ==
  /\ microtasks # <<>>
  /\ Head(microtasks).kind = "resume"
  /\ LET r == Head(microtasks).request
     IN  Admit(r, body[r].sessionId, Store)
  /\ microtasks' = Tail(microtasks)
  /\ UNCHANGED << sessions, messages, usageStore, resolved, body, awaiting, apiResponse, result,
                  response, humanMessage, nextId, now, clients, replies, failures, quota, arrived, storeOps, lastOp >>

\* The model call of turn r returns reply: lines 144..172, then the finally.
ModelReturn(r, reply) ==
  LET sessionId == body[r].sessionId
      aiContent == ExtractText(reply.content)
      saved == saveMessage(Store, sessionId, "ai", aiContent, Undefined, nextId, now + 2)
  IN  /\ r \in 1..arrived
      /\ pc[r] = "calling"
      /\ microtasks = <<>>
      /\ reply \in replies
      /\ now' = now + 2
      /\ apiResponse' = [apiResponse EXCEPT ![r] = reply]
      /\ usageStore' = recordUsage(usageStore, sessionId, reply.input_tokens,
                                   reply.output_tokens, AI_MODEL, now + 1)
      /\ sessions' = saved.store.sessions
      /\ messages' = saved.store.messages
      /\ IF saved.error # NoError
         THEN /\ pc' = [pc EXCEPT ![r] = "threw"]
              /\ result' = [result EXCEPT ![r] = [NoResult EXCEPT !.kind = saved.error, !.message = saved.error]]
              /\ UNCHANGED nextId
         ELSE /\ pc' = [pc EXCEPT ![r] = "returned"]
              /\ result' = [result EXCEPT ![r] =
                              [kind |-> "value", message |-> "", content |-> aiContent,
                               inputTokens |-> reply.input_tokens,
                               outputTokens |-> reply.output_tokens]]
              /\ nextId' = nextId + 1
      /\ Release(r)
      /\ UNCHANGED << body, awaiting, history, usageAtRead, claudeMessages, response, humanMessage,
                      clients, replies, failures, quota, arrived, storeOps, lastOp >>

\* Faulty variant: no finally; a failed turn leaves its promise unresolved and stored.
ModelThrowNoFinally(r) ==
  /\ r \in 1..arrived
  /\ pc[r] = "calling"
  /\ microtasks = <<>>
  /\ pc' = [pc EXCEPT ![r] = "threw"]
  /\ \E message \in failures :
       result' = [result EXCEPT ![r] = [NoResult EXCEPT !.kind = "ModelCallFailed",
                                                         !.message = message]]
  /\ microtasks' = Append(microtasks, Job("respond", r))
  /\ UNCHANGED << sessions, messages, usageStore, sessionLocks, resolved, body, awaiting,
                  apiResponse, history, usageAtRead, claudeMessages, response, humanMessage, nextId, now, clients,
                  replies, failures, quota, arrived, storeOps, lastOp >>

\* Faulty variant: the usage of the failed call is recorded before the error leaves.
ModelThrowRecording(r) ==
  /\ r \in 1..arrived
  /\ pc[r] = "calling"
  /\ microtasks = <<>>
  /\ pc' = [pc EXCEPT ![r] = "threw"]
  /\ \E message \in failures :
       result' = [result EXCEPT ![r] = [NoResult EXCEPT !.kind = "ModelCallFailed",
                                                         !.message = message]]
  /\ usageStore' = recordUsage(usageStore, body[r].sessionId, 0, 0, AI_MODEL, now + 1)
  /\ now' = now + 1
  /\ Release(r)
  /\ UNCHANGED << sessions, messages, body, awaiting, apiResponse, history, usageAtRead,
                  claudeMessages, response, humanMessage, nextId, clients, replies, failures, quota, arrived,
                  storeOps, lastOp >>

\* The model call of turn r throws: nothing of lines 144..172 runs, the finally does.
ModelThrow(r) ==
  /\ r \in 1..arrived
  /\ pc[r] = "calling"
  /\ microtasks = <<>>
  /\ pc' = [pc EXCEPT ![r] = "threw"]
  /\ \E message \in failures :
       result' = [result EXCEPT ![r] = [NoResult EXCEPT !.kind = "ModelCallFailed",
                                                         !.message = message]]
  /\ Release(r)
  /\ UNCHANGED << sessions, messages, usageStore, body, awaiting, apiResponse, history,
                  usageAtRead, claudeMessages, response, humanMessage, nextId, now, clients, replies, failures, quota, arrived,
                  storeOps, lastOp >>

\* Faulty variant: the catch sends the error's own message to the client.
RespondLeaking ==
  /\ microtasks # <<>>
  /\ Head(microtasks).kind = "respond"
  /\ LET r == Head(microtasks).request
     IN  response' = [response EXCEPT ![r] =
           IF result[r].kind = "value"
           THEN [status |-> 200, aiMessage |-> result[r].content,
                 inputTokens |-> result[r].inputTokens,
                 outputTokens |-> result[r].outputTokens, error |-> ""]
           ELSE [NoResponse EXCEPT !.status = 500, !.error = result[r].message]]
  /\ microtasks' = Tail(microtasks)
  /\ UNCHANGED << sessions, messages, usageStore, sessionLocks, resolved, pc, body,
                  awaiting, history, usageAtRead, claudeMessages, apiResponse, result,
                  humanMessage, nextId, now, clients, replies, failures, quota, arrived,
                  storeOps, lastOp >>

\* The route handler continues after `await getAIResponse`: res.json or the catch.
Respond ==
  /\ microtasks # <<>>
  /\ Head(microtasks).kind = "respond"
  /\ LET r == Head(microtasks).request
     IN  response' = [response EXCEPT ![r] =
           IF result[r].kind = "value"
           THEN [status |-> 200, aiMessage |-> result[r].content,
                 inputTokens |-> result[r].inputTokens,
                 outputTokens |-> result[r].outputTokens, error |-> ""]
           ELSE [NoResponse EXCEPT !.status = 500, !.error = "Failed to process message"]]
  /\ microtasks' = Tail(microtasks)
  /\ UNCHANGED << sessions, messages, usageStore, sessionLocks, resolved, pc, body,
                  awaiting, history, usageAtRead, claudeMessages, apiResponse, result,
                  humanMessage,
                  nextId, now, clients, replies, failures, quota, arrived, storeOps, lastOp >>

\* ---------------------------------------------------------- specifications
InitWith(bodies, answers, errors, n) ==
  /\ sessions = EmptyMap
  /\ messages = EmptyMap
  /\ usageStore = EmptyMap
  /\ sessionLocks = EmptyMap
  /\ resolved = {}
  /\ microtasks = <<>>
  /\ clients = bodies
  /\ replies = answers
  /\ failures = errors
  /\ quota = n
  /\ pc = [r \in 1..n |-> "new"]
  /\ body = [r \in 1..n |->
               [sessionId |-> "", author |-> "", content |-> "", topic |-> Undefined]]
  /\ awaiting = [r \in 1..n |-> 0]
  /\ history = [r \in 1..n |-> <<>>]
  /\ usageAtRead = [r \in 1..n |-> <<>>]
  /\ claudeMessages = [r \in 1..n |-> <<>>]
  /\ apiResponse = [r \in 1..n |-> NoApiResponse]
  /\ result = [r \in 1..n |-> NoResult]
  /\ response = [r \in 1..n |-> NoResponse]
  /\ humanMessage = [r \in 1..n |-> 0]
  /\ nextId = 1
  /\ now = 0
  /\ arrived = 0
  /\ storeOps = 0
  /\ lastOp = [op |-> "none", sessionId |-> "", error |-> NoError,
               inputTokens |-> 0, outputTokens |-> 0, returned |-> <<>>,
               before |-> [sessions |-> EmptyMap, messages |-> EmptyMap,
                           usageStore |-> EmptyMap, sessionLocks |-> EmptyMap]]

Init == InitWith(SpecBodies, {TextReply}, {ConnectionError}, MaxReq)
InitLock == InitWith(LockBodies, {TextReply}, {ConnectionError}, MaxLockReq)

Next ==
  \/ \E b \in ValidBodies \cup InvalidBodies : Post(b)
  \/ Resume
  \/ \E r \in 1..quota, reply \in ModelReplies : ModelReturn(r, reply)
  \/ \E r \in 1..quota : ModelThrow(r)
  \/ Respond

Spec == Init /\ [][Next]_vars
SpecLock == InitLock /\ [][Next]_vars

\* Every model call eventually returns or throws, and the event loop runs the
\* jobs it has queued.
ModelSettles(r) == (\E reply \in ModelReplies : ModelReturn(r, reply)) \/ ModelThrow(r)
Fairness ==
  /\ WF_vars(Resume)
  /\ WF_vars(Respond)
  /\ \A r \in 1..MaxLockReq : WF_vars(ModelSettles(r))
InitFair == InitWith(LockBodies, {TextReply}, {ConnectionError}, MaxFairReq)
FairLock == InitFair /\ [][Next]_vars /\ Fairness

\* The route with every body a client may send, well-formed or not, with and
\* without a topic, and every shape of reply the model may give.
InitRoute == InitWith(ValidBodies \cup InvalidBodies, ModelReplies, ModelErrors, MaxRouteReq)
SpecRoute == InitRoute /\ [][Next]_vars

\* The two-party case: the two partners of one session send requests such
\* that at most two turns of the session are executing or waiting at any time.
PairBodies ==
  [sessionId : {"s1"}, author : HumanAuthors, content : Contents, topic : {Undefined}]
Outstanding(s) == {r \in 1..arrived : body[r].sessionId = s /\ pc[r] \in {"waiting", "calling"}}
AtMostTwoOutstanding == \A s \in SessionIds : Cardinality(Outstanding(s)) <= 2
InitPair == InitWith(PairBodies, {TextReply}, {ConnectionError}, MaxPairReq)
NextPair == Next /\ AtMostTwoOutstanding'
SpecPair == InitPair /\ [][NextPair]_vars

\* ------------------------------------------- the store, called directly
\* What a direct caller of SessionStore and MessageService passes.
StoreTopics == {"Moving", "Buying"}
StoreAuthors == {"partner_a", "ai"}

\* The stores as a direct call finds them.
Before ==
  [sessions |-> sessions, messages |-> messages, usageStore |-> usageStore,
   sessionLocks |-> sessionLocks]

Called(op, sessionId, error) ==
  /\ storeOps < MaxStoreOps
  /\ storeOps' = storeOps + 1
  /\ lastOp' = [op |-> op, sessionId |-> sessionId, error |-> error,
                inputTokens |-> 0, outputTokens |-> 0, returned |-> <<>>,
                before |-> Before]

StoreCreateSession(sessionId, topic) ==
  LET st == createSession(Store, sessionId, topic, now + 1)
  IN  /\ Called("createSession", sessionId, NoError)
      /\ sessions' = st.sessions
      /\ messages' = st.messages
      /\ now' = now + 1
      /\ UNCHANGED << usageStore, sessionLocks, resolved, microtasks, pc, body, awaiting,
                      history, usageAtRead, claudeMessages, apiResponse, result, response,
                      humanMessage, nextId,
                      clients, replies, failures, quota, arrived >>

StoreAddMessage(sessionId, author, content) ==
  LET message == [id |-> nextId, sessionId |-> sessionId, author |-> author,
                  content |-> content, createdAt |-> now + 1]
      added == addMessage(Store, sessionId, message)
  IN  /\ Called("addMessage", sessionId, added.error)
      /\ sessions' = added.store.sessions
      /\ messages' = added.store.messages
      /\ nextId' = nextId + 1
      /\ now' = now + 1
      /\ UNCHANGED << usageStore, sessionLocks, resolved, microtasks, pc, body, awaiting,
                      history, usageAtRead, claudeMessages, apiResponse, result, response,
                      humanMessage,
                      clients, replies, failures, quota, arrived >>

StoreSaveMessage(sessionId, author, content, topic) ==
  LET saved == saveMessage(Store, sessionId, author, content, topic, nextId, now + 1)
  IN  /\ Called("saveMessage", sessionId, saved.error)
      /\ sessions' = saved.store.sessions
      /\ messages' = saved.store.messages
      /\ nextId' = nextId + 1
      /\ now' = now + 1
      /\ UNCHANGED << usageStore, sessionLocks, resolved, microtasks, pc, body, awaiting,
                      history, usageAtRead, claudeMessages, apiResponse, result, response,
                      humanMessage,
                      clients, replies, failures, quota, arrived >>

InitStore == InitWith({}, {}, {}, 0)

NextStore ==
  \/ \E sessionId \in SessionIds, topic \in StoreTopics : StoreCreateSession(sessionId, topic)
  \/ \E sessionId \in SessionIds, author \in StoreAuthors :
       StoreAddMessage(sessionId, author, "hi")
  \/ \E sessionId \in SessionIds, topic \in Topics :
       StoreSaveMessage(sessionId, "partner_b", "hi", topic)

SpecStore == InitStore /\ [][NextStore]_vars

\* ------------------------------- the request built from any transcript
\* The request formatMessagesForClaude builds from the history of a session,
\* as getAIResponse does at lines 133..134.
FormatHistory(sessionId) ==
  /\ storeOps < MaxStoreOps
  /\ storeOps' = storeOps + 1
  /\ lastOp' = [op |-> "formatMessagesForClaude", sessionId |-> sessionId,
                error |-> NoError, inputTokens |-> 0, outputTokens |-> 0,
                returned |-> <<formatMessagesForClaude(
                                 getConversationHistory(Store, sessionId))>>,
                before |-> Before]
  /\ UNCHANGED << sessions, messages, usageStore, sessionLocks, resolved, microtasks, pc,
                  body, awaiting, history, usageAtRead, claudeMessages, apiResponse, result,
                  response, humanMessage, nextId, now, clients, replies, failures, quota,
                  arrived >>

\* Transcripts with messages of every author a message can have.
NextFormat ==
  \/ \E sessionId \in SessionIds, author \in Authors :
       StoreSaveMessage(sessionId, author, "hi", Undefined)
  \/ \E sessionId \in SessionIds : FormatHistory(sessionId)

SpecFormat == InitStore /\ [][NextFormat]_vars

\* ------------------------------------------ the ledger, called directly
\* Token counts a direct caller of UsageService passes: none, one token, the
\* counts of a usual call, and a negative count.
InputTokenCounts == {-1, 0, 1, 120}
OutputTokenCounts == {-1, 0, 340}

LedgerFrame ==
  UNCHANGED << sessions, messages, sessionLocks, resolved, microtasks, pc, body, awaiting,
               history, usageAtRead, claudeMessages, apiResponse, result, response,
               humanMessage, nextId, clients, replies, failures, quota, arrived >>

\* recordUsage returns nothing and has no throw.
LedgerRecordUsage(sessionId, inputTokens, outputTokens) ==
  /\ storeOps < MaxLedgerOps
  /\ storeOps' = storeOps + 1
  /\ usageStore' = recordUsage(usageStore, sessionId, inputTokens, outputTokens,
                               AI_MODEL, now + 1)
  /\ now' = now + 1
  /\ lastOp' = [op |-> "recordUsage", sessionId |-> sessionId, error |-> NoError,
                inputTokens |-> inputTokens, outputTokens |-> outputTokens,
                returned |-> <<>>, before |-> Before]
  /\ LedgerFrame

LedgerGetSessionUsage(sessionId) ==
  /\ storeOps < MaxLedgerOps
  /\ storeOps' = storeOps + 1
  /\ lastOp' = [op |-> "getSessionUsage", sessionId |-> sessionId, error |-> NoError,
                inputTokens |-> 0, outputTokens |-> 0,
                returned |-> <<getSessionUsage(usageStore, sessionId)>>, before |-> Before]
  /\ UNCHANGED << usageStore, now >>
  /\ LedgerFrame

NextLedger ==
  \/ \E sessionId \in SessionIds, inputTokens \in InputTokenCounts,
        outputTokens \in OutputTokenCounts :
       LedgerRecordUsage(sessionId, inputTokens, outputTokens)
  \/ \E sessionId \in SessionIds : LedgerGetSessionUsage(sessionId)
  \/ \E sessionId \in SessionIds : StoreSaveMessage(sessionId, "partner_a", "hi", Undefined)

SpecLedger == InitStore /\ [][NextLedger]_vars

\* ------------------------------------- queries, and what callers hold
QueryOps ==
  {"getSession", "getMessages", "getConversationHistory", "getSessionUsage",
   "getSessionUsageRecords"}
\* The queries that return an array.
ArrayQueries == {"getMessages", "getConversationHistory", "getSessionUsageRecords"}

QueryValue(op, sessionId) ==
  CASE op = "getSession" -> getSession(Store, sessionId)
    [] op = "getMessages" -> getMessages(Store, sessionId)
    [] op = "getConversationHistory" -> getConversationHistory(Store, sessionId)
    [] op = "getSessionUsage" -> getSessionUsage(usageStore, sessionId)
    [] op = "getSessionUsageRecords" -> getSessionUsageRecords(usageStore, sessionId)

QueryFrame ==
  UNCHANGED << sessionLocks, resolved, microtasks, pc, body, awaiting, history,
               usageAtRead, claudeMessages, apiResponse, result, response,
               humanMessage, nextId, now, clients, replies, failures, quota, arrived >>

\* Faulty variant: a query on an absent id sets up an empty array for it, as
\* recordUsage does.
QueryInitializing(op, sessionId) ==
  /\ op \in QueryOps
  /\ lastOp' = [op |-> op, sessionId |-> sessionId, error |-> NoError,
                inputTokens |-> 0, outputTokens |-> 0,
                returned |-> <<QueryValue(op, sessionId)>>, before |-> Before]
  /\ messages' = IF MapHas(messages, sessionId) THEN messages
                 ELSE MapSet(messages, sessionId, <<>>)
  /\ UNCHANGED << sessions, usageStore, storeOps >>
  /\ QueryFrame

\* A read query, called between any two steps of the program: Map.get and,
\* for the arrays, `?? []`; the usage summary folds the records.  None has an
\* assignment to a map.
Query(op, sessionId) ==
  /\ op \in QueryOps
  /\ lastOp' = [op |-> op, sessionId |-> sessionId, error |-> NoError,
                inputTokens |-> 0, outputTokens |-> 0,
                returned |-> <<QueryValue(op, sessionId)>>, before |-> Before]
  /\ UNCHANGED << sessions, messages, usageStore, storeOps >>
  /\ QueryFrame

\* `map.get(k) ?? []` gives the stored array itself when the key is present,
\* and a new array when it is not.
GaveStoredArray(map, sessionId) == MapHas(map, sessionId)

\* What a caller may put into an array it holds.
ForeignMessage(sessionId) ==
  [id |-> 0, sessionId |-> sessionId, author |-> "partner_a", content |-> "hi",
   createdAt |-> 0]
ForeignRecord(sessionId) ==
  [sessionId |-> sessionId, inputTokens |-> 1, outputTokens |-> 1, model |-> AI_MODEL,
   createdAt |-> 0]
Mutated(array, how, element) ==
  IF how = "push" THEN Append(array, element)
  ELSE IF array = <<>> THEN array ELSE SubSeq(array, 1, Len(array) - 1)

\* The caller of the last query changes the array it was given, by push or
\* pop.  The array is the map's own when the key was present at the query.
CallerMutates(how) ==
  LET sessionId == lastOp.sessionId
      ofMessages == /\ lastOp.op \in {"getMessages", "getConversationHistory"}
                    /\ GaveStoredArray(lastOp.before.messages, sessionId)
      ofRecords == /\ lastOp.op = "getSessionUsageRecords"
                   /\ GaveStoredArray(lastOp.before.usageStore, sessionId)
  IN  /\ lastOp.op \in ArrayQueries
      /\ storeOps < MaxMutations
      /\ storeOps' = storeOps + 1
      /\ messages' = IF ofMessages
                     THEN [messages EXCEPT
                             ![sessionId] = Mutated(@, how, ForeignMessage(sessionId))]
                     ELSE messages
      /\ usageStore' = IF ofRecords
                       THEN [usageStore EXCEPT
                               ![sessionId] = Mutated(@, how, ForeignRecord(sessionId))]
                       ELSE usageStore
      /\ lastOp' = [op |-> "mutate", sessionId |-> sessionId, error |-> NoError,
                    inputTokens |-> 0, outputTokens |-> 0, returned |-> <<>>,
                    before |-> Before]
      /\ UNCHANGED sessions
      /\ QueryFrame

InitQuery == InitWith(LockBodies, {TextReply}, {ConnectionError}, MaxQueryReq)
NextQuery ==
  \/ Next
  \/ \E op \in QueryOps, sessionId \in SessionIds : Query(op, sessionId)
SpecQuery == InitQuery /\ [][NextQuery]_vars

\* The same, with callers that change the arrays the queries gave them.
NextAlias ==
  \/ NextQuery
  \/ \E how \in {"push", "pop"} : CallerMutates(how)
InitAlias == InitWith(LockBodies, {TextReply}, {ConnectionError}, MaxAliasReq)
SpecAlias == InitAlias /\ [][NextAlias]_vars

\* ------------------------------------------------------------------ claims
Sid(r) == body[r].sessionId
\* Turn r is between its lock acquisition (line 129) and its release (line 177).
InCriticalSection(r) == r \in 1..arrived /\ pc[r] = "calling"
\* Turn r is executing or waiting.
InFlight(r) == r \in 1..arrived /\ pc[r] \in {"waiting", "calling"}
Settled(r) == r \in 1..arrived /\ pc[r] \in {"returned", "threw"}
IsPrefix(s, t) == Len(s) <= Len(t) /\ \A i \in 1..Len(s) : s[i] = t[i]

\* C1: at most one turn of a session is between lock acquisition and lock
\* release at a time: no two model calls of one session are in flight together.
C1_MutualExclusion ==
  \A r1, r2 \in 1..arrived :
    (r1 # r2 /\ Sid(r1) = Sid(r2)) => ~(InCriticalSection(r1) /\ InCriticalSection(r2))

\* C2: no two model invocations of one session whose executions overlap in
\* time are built from the identical history snapshot.
C2_DistinctSnapshots ==
  \A r1, r2 \in 1..arrived :
    (r1 # r2 /\ Sid(r1) = Sid(r2) /\ InCriticalSection(r1) /\ InCriticalSection(r2))
      => history[r1] # history[r2]

\* C3: when a turn's model call throws, the turn ends with the error, its
\* promise resolved and the session's map entry removed; from then on the map
\* never holds that turn's promise, and a request that arrives for the session
\* after a failure, with no other turn of the session in flight, goes straight
\* to its model call.
C3_FailedTurnReleases ==
  /\ [](\A r \in 1..quota :
          pc[r] = "threw" =>
            /\ r \in resolved
            /\ \A k \in DOMAIN sessionLocks : sessionLocks[k] # r
            /\ response[r].status \in {0, 500})
  /\ [][\A r \in 1..quota :
          /\ (pc[r] = "calling" /\ pc'[r] = "threw")
               => (result'[r].kind = "ModelCallFailed" /\ ~MapHas(sessionLocks', Sid(r)))
          /\ ( /\ pc[r] = "new" /\ pc'[r] \in {"waiting", "calling"}
               /\ \E q \in 1..arrived : pc[q] = "threw" /\ Sid(q) = body'[r].sessionId
               /\ \A q \in 1..arrived : Sid(q) = body'[r].sessionId => ~InFlight(q) )
               => (pc'[r] = "calling" /\ awaiting'[r] = 0)]_vars

\* C3 witness: the first turn failed and was answered 500; the second request
\* arrived afterwards and is at its model call without having awaited anything.
C3_Witness ==
  /\ arrived = 2 /\ Sid(1) = Sid(2)
  /\ pc[1] = "threw" /\ response[1].status = 500
  /\ pc[2] = "calling" /\ awaiting[2] = 0

\* The human message the caller of turn r saved is in the transcript.
HumanMessageKept(r, msgs) ==
  \E i \in 1..Len(msgs) :
    /\ msgs[i].id = humanMessage[r]
    /\ msgs[i].author = body[r].author
    /\ msgs[i].content = body[r].content

\* C4 as stated: when a turn's model call throws, the session's transcript
\* and usage records are exactly what they were when the turn read the
\* history, and the human message its caller saved is still there.
C4_UnchangedSinceRead ==
  [][\A r \in 1..quota :
       (pc[r] = "calling" /\ pc'[r] = "threw") =>
         /\ messages'[Sid(r)] = history[r]
         /\ getSessionUsageRecords(usageStore', Sid(r)) = usageAtRead[r]
         /\ HumanMessageKept(r, messages'[Sid(r)])]_vars

\* C4 amended: the step in which a turn's model call throws appends no ai
\* message and no usage record and changes no session; the history and the
\* usage records the turn found when it read the history are still prefixes
\* of the session's transcript and records, and the human message its caller
\* saved is still there.
C4_FailedTurnAppendsNothing ==
  [][\A r \in 1..quota :
       (pc[r] = "calling" /\ pc'[r] = "threw") =>
         /\ messages' = messages
         /\ usageStore' = usageStore
         /\ sessions' = sessions
         /\ IsPrefix(history[r], messages'[Sid(r)])
         /\ IsPrefix(usageAtRead[r], getSessionUsageRecords(usageStore', Sid(r)))
         /\ HumanMessageKept(r, messages'[Sid(r)])]_vars

\* C4 witness: a turn failed after an earlier turn of the session had
\* succeeded and after another request had saved its message behind the
\* history the failed turn read.
C4_Witness ==
  \E r \in 1..arrived :
    /\ pc[r] = "threw" /\ result[r].kind = "ModelCallFailed"
    /\ Len(usageAtRead[r]) = 1 /\ Len(usageStore[Sid(r)]) = 1
    /\ Len(history[r]) = 3 /\ Len(messages[Sid(r)]) = 4

\* No turn waits or executes, every request has been answered, no lock is stored.
Quiescent ==
  /\ \A r \in 1..arrived : ~InFlight(r) /\ response[r].status \in {200, 400, 500}
  /\ sessionLocks = EmptyMap

\* C5: when every model call eventually returns or throws, the system is
\* quiescent again and again: every turn that waits or executes has returned
\* or thrown (a turn that has settled stays settled), its request is answered,
\* and no lock stays stored.
C5_EveryTurnSettles == []<>Quiescent

\* C5 witness: two requests waited on the first turn, which failed; both have
\* been answered.
C5_Witness ==
  /\ arrived >= 3 /\ pc[1] = "threw"
  /\ awaiting[2] = 1 /\ awaiting[3] = 1
  /\ response[2].status \in {200, 500} /\ response[3].status \in {200, 500}

\* C6: a turn never awaits a promise created by a turn of another session, and
\* a request waits only if a turn of its own session is at its model call.
C6_NoCrossSessionWait ==
  /\ [](\A r \in 1..arrived : awaiting[r] # 0 => Sid(awaiting[r]) = Sid(r))
  /\ [][\A r \in 1..quota :
          (pc[r] = "new" /\ pc'[r] = "waiting")
            => \E q \in 1..arrived : Sid(q) = body'[r].sessionId /\ pc[q] = "calling"]_vars

\* C6 witness: a turn of one session arrived, ran and returned while a turn of
\* the other session, admitted earlier, is still at its model call.
C6_Witness ==
  \E r1, r2 \in 1..arrived :
    /\ r2 < r1 /\ Sid(r1) # Sid(r2)
    /\ pc[r2] = "calling" /\ pc[r1] = "returned"
    /\ awaiting[r1] = 0 /\ response[r1].status = 200

\* C7: of two requests of a session that both found a lock stored when they
\* arrived, the later one is admitted only after the promise it awaits is
\* resolved and not before the earlier one is admitted.
C7_FirstComeFirstServed ==
  \A r1, r2 \in 1..arrived :
    (r1 < r2 /\ Sid(r1) = Sid(r2) /\ awaiting[r1] # 0 /\ awaiting[r2] # 0
       /\ pc[r2] # "waiting")
      => (awaiting[r2] \in resolved /\ pc[r1] # "waiting")

\* C8: when a turn reads the history for its model request, what it reads is
\* the whole stored sequence of its session at that moment, so it holds every
\* message saved so far, the reply of every returned turn among them.
C8_CompleteViewAtRead ==
  [][\A r \in 1..quota :
       (pc[r] # "calling" /\ pc'[r] = "calling") =>
         LET s == body'[r].sessionId
         IN  /\ history'[r] = messages'[s]
             /\ Len(claudeMessages'[r]) = Len(messages'[s])
             /\ Cardinality({i \in 1..Len(history'[r]) : history'[r][i].author = "ai"})
                  >= Cardinality({q \in 1..arrived : Sid(q) = s /\ pc[q] = "returned"})]_vars

\* C8 witness: a turn that had to wait is at its model call with a history of
\* an earlier reply and two human messages.
C8_Witness ==
  \E r \in 1..arrived :
    /\ awaiting[r] # 0 /\ pc[r] = "calling"
    /\ Len(history[r]) = 3
    /\ \E i \in 1..3 : history[r][i].author = "ai"
    /\ history[r][3].id = humanMessage[r] \/ history[r][2].id = humanMessage[r]

\* C9: createSession with an id already present fails with AlreadyExists and
\* leaves the session record and its messages as they were.
C9_CreateSessionRejectsDuplicate ==
  (lastOp.op = "createSession" /\ MapHas(lastOp.before.sessions, lastOp.sessionId))
    => /\ lastOp.error = "AlreadyExists"
       /\ sessions = lastOp.before.sessions
       /\ messages = lastOp.before.messages

\* C10: addMessage for a session id that was never created fails with the
\* session-not-found error and changes neither map.
C10_AddMessageNeedsSession ==
  (lastOp.op = "addMessage" /\ ~MapHas(lastOp.before.sessions, lastOp.sessionId))
    => /\ lastOp.error = "SessionNotFound"
       /\ sessions = lastOp.before.sessions
       /\ messages = lastOp.before.messages
       /\ ~MapHas(sessions, lastOp.sessionId)
       /\ ~MapHas(messages, lastOp.sessionId)

\* C10 witness: addMessage failed for an absent session while the other
\* session holds a message.
C10_Witness ==
  /\ lastOp.op = "addMessage" /\ lastOp.error = "SessionNotFound"
  /\ ~MapHas(sessions, lastOp.sessionId)
  /\ \E s \in DOMAIN messages : Len(messages[s]) >= 1

\* The transcript of session s as a reader gets it now.
History(s) == getConversationHistory(Store, s)

\* The saveMessage calls made so far for session s: one by every request the
\* route accepted (line 80 of the route), one by every turn that got a reply
\* from the model (line 165 of getAIResponse).
SaveCalls(s) ==
  Cardinality({r \in 1..arrived : Sid(r) = s /\ pc[r] # "rejected"})
    + Cardinality({r \in 1..arrived : Sid(r) = s /\ pc[r] = "returned"})

\* The step is a saveMessage call of the route for session s, or one of a turn,
\* and m is the message it was asked to save.
SavesHuman(s, m) ==
  /\ arrived' = arrived + 1
  /\ pc'[arrived'] # "rejected"
  /\ body'[arrived'].sessionId = s
  /\ m.id = humanMessage'[arrived']
  /\ m.author = body'[arrived'].author
  /\ m.content = body'[arrived'].content
SavesReply(s, m) ==
  \E r \in 1..arrived :
    /\ Sid(r) = s
    /\ pc[r] = "calling" /\ pc'[r] = "returned"
    /\ m.author = "ai"
    /\ m.content = result'[r].content

\* C11: the history of a session is as long as the number of saveMessage calls
\* made for it, and every saveMessage call makes it one longer by appending its
\* message last.
C11_HistoryCountsSaves ==
  /\ [](\A s \in SessionIds : Len(History(s)) = SaveCalls(s))
  /\ [][\A s \in SessionIds :
          SaveCalls(s)' # SaveCalls(s)
            => /\ Len(History(s)') = Len(History(s)) + 1
               /\ SubSeq(History(s)', 1, Len(History(s))) = History(s)
               /\ LET last == History(s)'[Len(History(s)')]
                  IN  /\ last.sessionId = s
                      /\ SavesHuman(s, last) \/ SavesReply(s, last)]_vars

\* C11 witness: a session for which three saveMessage calls were made, by two
\* requests and by the turn of one of them.
C11_Witness ==
  \E s \in SessionIds :
    /\ SaveCalls(s) = 3
    /\ Len(History(s)) = 3
    /\ \E i \in 1..3 : History(s)[i].author = "ai"

\* C12: the transcript is append-only: over every step of the route and of a
\* turn, each session's message sequence before the step is a prefix of its
\* message sequence after it.
C12_AppendOnly ==
  [][\A s \in SessionIds : IsPrefix(History(s), History(s)')]_vars

\* C12 witness: a transcript that grew by a human message, the model's reply
\* and a second human message, whose turn then failed.
C12_Witness ==
  \E s \in SessionIds :
    /\ Len(History(s)) = 3
    /\ History(s)[2].author = "ai"
    /\ \E r \in 1..arrived : Sid(r) = s /\ pc[r] = "threw"

\* The step is the route's saveMessage call for body b.
RouteSaves(b) ==
  /\ arrived' = arrived + 1
  /\ body'[arrived'] = b
  /\ pc'[arrived'] # "rejected"

\* C13: saveMessage on a session id the store does not hold creates the session
\* with the given topic, or with 'Untitled Decision' when none is given, and
\* stores the message: the history is that one message and getSession gives the
\* chosen topic.
C13_AutoCreateOnFirstWrite ==
  [][\A b \in ValidBodies :
       (RouteSaves(b) /\ ~MapHas(sessions, b.sessionId))
         => /\ pc'[arrived'] # "failed"
            /\ MapHas(sessions', b.sessionId)
            /\ getSession(Store, b.sessionId)'.id = b.sessionId
            /\ getSession(Store, b.sessionId)'.topic =
                 (IF b.topic = Undefined THEN "Untitled Decision" ELSE b.topic)
            /\ Len(History(b.sessionId)') = 1
            /\ History(b.sessionId)'[1].author = b.author
            /\ History(b.sessionId)'[1].content = b.content
            /\ History(b.sessionId)'[1].sessionId = b.sessionId]_vars

\* C13 witness: one session created by a first write without a topic, another
\* by a first write with one.
C13_Witness ==
  /\ MapHas(sessions, "s1") /\ sessions["s1"].topic = "Untitled Decision"
  /\ MapHas(sessions, "s2") /\ sessions["s2"].topic = "Moving"
  /\ Len(History("s1")) = 1 /\ Len(History("s2")) = 1
  /\ body[1].topic = Undefined /\ body[2].topic = "Moving"

\* C14: once a session exists, no saveMessage call, whatever topic it carries,
\* and no turn changes the session's id, topic or createdAt.
C14_MetadataFixedAtCreation ==
  [][\A s \in DOMAIN sessions :
       /\ MapHas(sessions', s)
       /\ sessions'[s].id = sessions[s].id
       /\ sessions'[s].topic = sessions[s].topic
       /\ sessions'[s].createdAt = sessions[s].createdAt]_vars

\* C14 witness: a session created without a topic got a second write carrying
\* a topic, after the turn of the first had saved the model's reply.
C14_Witness ==
  /\ arrived = 2
  /\ Sid(1) = Sid(2)
  /\ body[1].topic = Undefined /\ body[2].topic = "Moving"
  /\ pc[1] = "returned" /\ pc[2] = "calling"
  /\ sessions[Sid(1)].topic = "Untitled Decision"
  /\ sessions[Sid(1)].createdAt < History(Sid(1))[3].createdAt

\* The sum of the input, and of the output, token counts of the first n of recs.
RECURSIVE SumInput(_, _)
SumInput(recs, n) == IF n = 0 THEN 0 ELSE SumInput(recs, n - 1) + recs[n].inputTokens
RECURSIVE SumOutput(_, _)
SumOutput(recs, n) == IF n = 0 THEN 0 ELSE SumOutput(recs, n - 1) + recs[n].outputTokens

\* The last ledger call was getSessionUsage; what it returned and the records
\* of its session.
AskedUsage == lastOp.op = "getSessionUsage"
Summary == lastOp.returned[1]
SummaryRecords == getSessionUsageRecords(lastOp.before.usageStore, lastOp.sessionId)

\* C15: getSessionUsage returns the term-wise sums of the session's records,
\* their sum as totalTokens and the number of records as apiCalls; with no
\* records every field is zero and no error is raised.
C15_SummaryIsTermwiseSum ==
  AskedUsage =>
    /\ lastOp.error = NoError
    /\ Summary.sessionId = lastOp.sessionId
    /\ Summary.totalInputTokens = SumInput(SummaryRecords, Len(SummaryRecords))
    /\ Summary.totalOutputTokens = SumOutput(SummaryRecords, Len(SummaryRecords))
    /\ Summary.totalTokens = Summary.totalInputTokens + Summary.totalOutputTokens
    /\ Summary.apiCalls = Len(SummaryRecords)
    /\ SummaryRecords = <<>> =>
         /\ Summary.totalInputTokens = 0 /\ Summary.totalOutputTokens = 0
         /\ Summary.totalTokens = 0 /\ Summary.apiCalls = 0
         /\ Summary.estimatedCostUsd = 0

\* C15 witness: the summary of a session with two records of non-zero counts.
C15_Witness ==
  /\ AskedUsage
  /\ Len(SummaryRecords) = 2
  /\ SummaryRecords[1].inputTokens = 120 /\ SummaryRecords[2].inputTokens = 1
  /\ SummaryRecords[1].outputTokens = 340
  /\ Summary.totalTokens = 461 + SummaryRecords[2].outputTokens

\* C16: the estimated cost is totalInputTokens * 3 + totalOutputTokens * 15
\* millionths of a dollar, output priced higher, and for whole token counts the
\* rounding to six decimals leaves the amount as it was.
C16_CostIsLinearInTokens ==
  AskedUsage =>
    LET unrounded == UnroundedCost(Summary.totalInputTokens, Summary.totalOutputTokens)
    IN  /\ Summary.estimatedCostUsd
             = (Summary.totalInputTokens * 3 + Summary.totalOutputTokens * 15) * 1000
        /\ Summary.estimatedCostUsd = unrounded
        /\ COST_PER_OUTPUT_TOKEN > COST_PER_INPUT_TOKEN

\* C16 witness: a summary over 121 input tokens and 340 output tokens, whose
\* cost is 5463 millionths of a dollar.
C16_Witness ==
  /\ AskedUsage
  /\ Summary.totalInputTokens = 121 /\ Summary.totalOutputTokens = 340
  /\ Summary.estimatedCostUsd = 5463000

\* C17: recordUsage with a negative input or output token count fails with
\* InvalidUsage and appends no record; with non-negative counts it succeeds and
\* appends exactly one record.
C17_RecordUsageValidates ==
  lastOp.op = "recordUsage" =>
    LET was == getSessionUsageRecords(lastOp.before.usageStore, lastOp.sessionId)
        is == getSessionUsageRecords(usageStore, lastOp.sessionId)
    IN  IF lastOp.inputTokens < 0 \/ lastOp.outputTokens < 0
        THEN lastOp.error = "InvalidUsage" /\ usageStore = lastOp.before.usageStore
        ELSE /\ lastOp.error = NoError
             /\ Len(is) = Len(was) + 1
             /\ SubSeq(is, 1, Len(was)) = was
             /\ is[Len(is)].inputTokens = lastOp.inputTokens
             /\ is[Len(is)].outputTokens = lastOp.outputTokens

\* The model call of turn r returned a reply.
ModelReturned(r) ==
  /\ r \in 1..arrived
  /\ pc[r] = "returned" \/ (pc[r] = "threw" /\ result[r].kind # "ModelCallFailed")
UsageRecords(s) == getSessionUsageRecords(usageStore, s)

\* C18: a session has as many usage records as model calls that returned for
\* it; the step in which a model call returns appends one record with the
\* token counts the reply reported, and the step in which it throws none.
C18_OneRecordPerReply ==
  /\ [](\A s \in SessionIds :
          Len(UsageRecords(s)) = Cardinality({r \in 1..arrived : Sid(r) = s /\ ModelReturned(r)}))
  /\ [][\A r \in 1..arrived :
          (pc[r] = "calling" /\ pc'[r] # "calling")
            => IF ModelReturned(r)'
               THEN /\ Len(UsageRecords(Sid(r))') = Len(UsageRecords(Sid(r))) + 1
                    /\ SubSeq(UsageRecords(Sid(r))', 1, Len(UsageRecords(Sid(r))))
                         = UsageRecords(Sid(r))
                    /\ LET last == UsageRecords(Sid(r))'[Len(UsageRecords(Sid(r))')]
                       IN  /\ last.sessionId = Sid(r)
                           /\ last.inputTokens = apiResponse'[r].input_tokens
                           /\ last.outputTokens = apiResponse'[r].output_tokens
               ELSE usageStore' = usageStore]_vars

\* C18 witness: of two model calls for one session the first returned and the
\* second threw, and the session has the one record of the first.
C18_Witness ==
  /\ arrived = 2 /\ Sid(1) = Sid(2)
  /\ pc[1] = "returned" /\ pc[2] = "threw"
  /\ Len(UsageRecords(Sid(1))) = 1
  /\ UsageRecords(Sid(1))[1].outputTokens = apiResponse[1].output_tokens

\* C19: whenever no turn of a session is executing or waiting, sessionLocks
\* holds no entry for the session, whether its turns returned or threw.
C19_ReturnToIdle ==
  \A s \in SessionIds :
    (\A r \in 1..arrived : Sid(r) = s => ~InFlight(r)) => ~MapHas(sessionLocks, s)

\* C19 witness: three turns of one session, two of which waited for the first,
\* have all settled, one of them by a throw, and the map is empty.
C19_Witness ==
  /\ arrived >= 3
  /\ \A r \in 1..arrived : Settled(r)
  /\ awaiting[2] = 1 /\ awaiting[3] = 1
  /\ \E r \in 1..arrived : pc[r] = "threw"
  /\ \E r \in 1..arrived : pc[r] = "returned"
  /\ DOMAIN sessionLocks = {}

NoTextBlock(blocks) == \A i \in 1..Len(blocks) : blocks[i].type # "text"

\* C20: when the model call returns a reply with no text block the turn does
\* not fail: it records the usage, appends an ai message whose content is the
\* empty string and returns the empty reply text with the reported token counts.
C20_EmptyReplyDegrades ==
  [][\A r \in 1..arrived :
       (pc[r] = "calling" /\ ModelReturned(r)' /\ NoTextBlock(apiResponse'[r].content))
         => /\ pc'[r] = "returned"
            /\ result'[r].kind = "value"
            /\ result'[r].content = ""
            /\ result'[r].inputTokens = apiResponse'[r].input_tokens
            /\ result'[r].outputTokens = apiResponse'[r].output_tokens
            /\ Len(UsageRecords(Sid(r))') = Len(UsageRecords(Sid(r))) + 1
            /\ LET record == UsageRecords(Sid(r))'[Len(UsageRecords(Sid(r))')]
               IN  /\ record.inputTokens = apiResponse'[r].input_tokens
                   /\ record.outputTokens = apiResponse'[r].output_tokens
            /\ Len(History(Sid(r))') = Len(History(Sid(r))) + 1
            /\ LET message == History(Sid(r))'[Len(History(Sid(r))')]
               IN  /\ message.author = "ai"
                   /\ message.content = ""
                   /\ message.sessionId = Sid(r)]_vars

\* C20 witness: a turn got a reply of one tool-use block, returned the empty
\* text, and the route answered its request.
C20_Witness ==
  \E r \in 1..arrived :
    /\ pc[r] = "returned"
    /\ Len(apiResponse[r].content) = 1
    /\ apiResponse[r].content[1].type = "tool_use"
    /\ result[r].content = ""
    /\ response[r].status = 200
    /\ response[r].outputTokens = apiResponse[r].output_tokens

\* Turn r has read the history and built its request to the model.
BuiltRequest(r) == r \in 1..arrived /\ pc[r] \in {"calling", "returned", "threw"}

\* C21: the request built from a history has one entry per message, in the
\* same order; an entry has the assistant role and the message's content
\* unchanged exactly when the author is ai, and otherwise the user role and
\* the content prefixed 'Partner A: ' for partner_a, 'Partner B: ' for partner_b.
C21_RequestMirrorsHistory ==
  \A r \in 1..arrived :
    BuiltRequest(r) =>
      /\ Len(claudeMessages[r]) = Len(history[r])
      /\ \A i \in 1..Len(history[r]) :
           LET msg == history[r][i]
               entry == claudeMessages[r][i]
           IN  /\ entry.content = msg.content
               /\ entry.role = "assistant" <=> msg.author = "ai"
               /\ entry.role \in {"assistant", "user"}
               /\ msg.author = "ai" => entry.label = ""
               /\ msg.author = "partner_a" => entry.label = "Partner A: "
               /\ msg.author = "partner_b" => entry.label = "Partner B: "

\* C21 witness: a request built from a message of partner_a, the model's reply
\* to it and a message of partner_b.
C21_Witness ==
  \E r \in 1..arrived :
    /\ BuiltRequest(r)
    /\ Len(claudeMessages[r]) = 3
    /\ history[r][1].author = "partner_a" /\ claudeMessages[r][1].label = "Partner A: "
    /\ history[r][2].author = "ai" /\ claudeMessages[r][2].role = "assistant"
    /\ history[r][3].author = "partner_b" /\ claudeMessages[r][3].label = "Partner B: "

\* C22: a turn that returns gives back what it persisted: its content is the
\* content of the ai message the turn appended to the transcript, and its
\* token counts are those of the usage record the turn appended.
C22_ReturnsWhatItPersisted ==
  [][\A r \in 1..arrived :
       (pc[r] = "calling" /\ pc'[r] = "returned")
         => LET s == Sid(r)
                message == History(s)'[Len(History(s)')]
                record == UsageRecords(s)'[Len(UsageRecords(s)')]
            IN  /\ Len(History(s)') = Len(History(s)) + 1
                /\ Len(UsageRecords(s)') = Len(UsageRecords(s)) + 1
                /\ message.author = "ai"
                /\ result'[r].kind = "value"
                /\ result'[r].content = message.content
                /\ result'[r].inputTokens = record.inputTokens
                /\ result'[r].outputTokens = record.outputTokens]_vars

\* C22 witness: two turns of one session returned, the first a text and the
\* second the empty text, and the transcript and the ledger hold both.
C22_Witness ==
  /\ arrived = 2 /\ Sid(1) = Sid(2)
  /\ pc[1] = "returned" /\ pc[2] = "returned"
  /\ result[1].content = "ok" /\ result[2].content = ""
  /\ History(Sid(1))[2].content = "ok" /\ History(Sid(1))[4].content = ""
  /\ UsageRecords(Sid(1))[1].outputTokens = result[1].outputTokens
  /\ UsageRecords(Sid(1))[2].outputTokens = result[2].outputTokens
  /\ result[1].outputTokens # result[2].outputTokens

\* The step is a read query: of the steps of the program and its callers only
\* a query leaves every request where it is.
QueryStep ==
  /\ lastOp'.op \in QueryOps
  /\ pc' = pc /\ microtasks' = microtasks /\ arrived' = arrived

MutationStep == storeOps' = storeOps + 1 /\ lastOp'.op = "mutate"

\* C24: a caller that pushes to, or pops from, the array it got from
\* getMessages, getConversationHistory or getSessionUsageRecords does not
\* change what the store and the ledger return for the session afterwards.
C24_ReturnedArraysAreNotAliases ==
  [][MutationStep =>
       \A s \in SessionIds :
         /\ getMessages(Store, s)' = getMessages(Store, s)
         /\ getConversationHistory(Store, s)' = getConversationHistory(Store, s)
         /\ getSessionUsageRecords(usageStore, s)' = getSessionUsageRecords(usageStore, s)]_vars

\* C25: recordUsage(s, ...) appends one record at the end of the records of s,
\* leaves the earlier records of s as a prefix, and leaves the records of every
\* other session and the conversation store as they were.
C25_RecordUsageAppendsToOneSession ==
  lastOp.op = "recordUsage" =>
    LET s == lastOp.sessionId
        was == getSessionUsageRecords(lastOp.before.usageStore, s)
        is == getSessionUsageRecords(usageStore, s)
    IN  /\ Len(is) = Len(was) + 1
        /\ SubSeq(is, 1, Len(was)) = was
        /\ is[Len(is)].sessionId = s
        /\ is[Len(is)].inputTokens = lastOp.inputTokens
        /\ is[Len(is)].outputTokens = lastOp.outputTokens
        /\ \A i \in 1..Len(was) : was[i].createdAt < is[Len(is)].createdAt
        /\ \A other \in SessionIds \ {s} :
             /\ MapHas(usageStore, other) <=> MapHas(lastOp.before.usageStore, other)
             /\ getSessionUsageRecords(usageStore, other)
                  = getSessionUsageRecords(lastOp.before.usageStore, other)
        /\ sessions = lastOp.before.sessions
        /\ messages = lastOp.before.messages

\* C25 witness: a second record for a session whose transcript holds a
\* message, with counts other than those of the first.
C25_Witness ==
  /\ lastOp.op = "recordUsage"
  /\ Len(getSessionUsageRecords(usageStore, lastOp.sessionId)) = 2
  /\ usageStore[lastOp.sessionId][1].inputTokens = 120
  /\ usageStore[lastOp.sessionId][2].inputTokens = 1
  /\ Len(getMessages(Store, lastOp.sessionId)) = 1

\* The route has answered request r.
Answered(r) == r \in 1..arrived /\ response[r].status # 0
\* Request r failed inside the try block of the route.
FailedInTry(r) == r \in 1..arrived /\ pc[r] \in {"threw", "failed"}

\* C26: whatever step of POST /message fails and whatever the message of the
\* error, the client gets status 500 with the one fixed body; the responses to
\* two failed requests are identical also when their errors differ.
C26_GenericFailureOutcome ==
  /\ \A r \in 1..arrived :
       (FailedInTry(r) /\ Answered(r))
         => /\ response[r].status = 500
            /\ response[r].error = "Failed to process message"
            /\ response[r].error # result[r].message
            /\ response[r].aiMessage = ""
            /\ response[r].inputTokens = 0 /\ response[r].outputTokens = 0
  /\ \A r1, r2 \in 1..arrived :
       (FailedInTry(r1) /\ FailedInTry(r2) /\ Answered(r1) /\ Answered(r2))
         => response[r1] = response[r2]
  /\ \A r \in 1..arrived : response[r].status = 500 => FailedInTry(r)

\* C26 witness: two requests of one session failed, one on a connection error
\* and one on a rate limit, and both have been answered.
C26_Witness ==
  /\ arrived = 2
  /\ pc[1] = "threw" /\ pc[2] = "threw"
  /\ result[1].message = ConnectionError /\ result[2].message = RateLimitError
  /\ Answered(1) /\ Answered(2)
  /\ response[1] = response[2]

\* A body with a missing or empty sessionId, author or content, or with an
\* author other than the two partners.
Malformed(b) ==
  \/ b.sessionId \in {Undefined, ""}
  \/ b.author \in {Undefined, ""}
  \/ b.content \in {Undefined, ""}
  \/ b.author \notin {"partner_a", "partner_b"}

\* C27: a malformed request is answered with status 400 and changes nothing:
\* no session is created, no message saved, no lock taken, no model call made.
C27_MalformedRequestRejected ==
  /\ [][(arrived' = arrived + 1 /\ Malformed(body'[arrived']))
          => /\ response'[arrived'].status = 400
             /\ sessions' = sessions /\ messages' = messages
             /\ usageStore' = usageStore
             /\ sessionLocks' = sessionLocks /\ microtasks' = microtasks
             /\ nextId' = nextId
             /\ pc'[arrived'] = "rejected"]_vars
  /\ [](\A r \in 1..arrived :
          Malformed(body[r])
            => /\ pc[r] = "rejected" /\ response[r].status = 400
               /\ claudeMessages[r] = <<>> /\ apiResponse[r] = NoApiResponse
               /\ awaiting[r] = 0 /\ humanMessage[r] = 0)

\* C27 witness: while a turn of s1 is at its model call, a request for s1 with
\* the author ai was answered 400 and the transcript still has its one message.
C27_Witness ==
  /\ arrived = 2
  /\ pc[1] = "calling" /\ Sid(1) = "s1"
  /\ Sid(2) = "s1" /\ body[2].author = "ai"
  /\ pc[2] = "rejected" /\ response[2].status = 400
  /\ Len(History("s1")) = 1
  /\ sessionLocks["s1"] = 1

\* Message m is the human message of request r.
IsHumanMessageOf(m, r) ==
  /\ m.id = humanMessage[r]
  /\ m.sessionId = Sid(r)
  /\ m.author = body[r].author
  /\ m.content = body[r].content

\* C28: the human message of a request is persisted before its turn acquires
\* the lock, so already while the turn waits, and it is in the history from
\* which the request's model call is built, also when the turn had to wait.
C28_HumanMessageReachesModel ==
  \A r \in 1..arrived :
    /\ InFlight(r) =>
         \E i \in 1..Len(History(Sid(r))) : IsHumanMessageOf(History(Sid(r))[i], r)
    /\ BuiltRequest(r) =>
         \E i \in 1..Len(history[r]) :
           /\ IsHumanMessageOf(history[r][i], r)
           /\ claudeMessages[r][i].role = "user"
           /\ claudeMessages[r][i].content = body[r].content

\* C28 witness: a turn that waited for the first turn is at its model call with
\* the first turn's reply and, after it, its own human message in its history.
C28_Witness ==
  \E r \in 2..arrived :
    /\ awaiting[r] = 1 /\ pc[r] = "calling" /\ pc[1] = "returned"
    /\ \E i \in 1..Len(history[r]) : history[r][i].author = "ai"
    /\ \E i \in 1..Len(history[r]) : IsHumanMessageOf(history[r][i], r)

\* C29: with at most two turns of a session outstanding at any time, their
\* critical sections never overlap; a turn that waited reads the history only
\* after the turn it waited for has saved its reply or failed: it reads what
\* that turn read, its own human message and that turn's reply, if any; and of
\* the requests outstanding for a session at most one has been admitted.
C29_TwoPartyMutualExclusion ==
  /\ \A r1, r2 \in 1..arrived :
       (r1 # r2 /\ Sid(r1) = Sid(r2)) => ~(InCriticalSection(r1) /\ InCriticalSection(r2))
  /\ \A r \in 1..arrived :
       (BuiltRequest(r) /\ awaiting[r] # 0)
         => LET q == awaiting[r]
            IN  /\ Settled(q)
                /\ IsPrefix(history[q], history[r])
                /\ IsHumanMessageOf(history[r][Len(history[q]) + 1], r)
                /\ IF pc[q] = "returned"
                   THEN /\ Len(history[r]) = Len(history[q]) + 2
                        /\ history[r][Len(history[r])].author = "ai"
                        /\ history[r][Len(history[r])].content = result[q].content
                   ELSE Len(history[r]) = Len(history[q]) + 1
  /\ \A s \in SessionIds :
       Cardinality({r \in Outstanding(s) : pc[r] = "calling"}) <= 1

\* C29 witness: the fourth request waits for the third, which is at its model
\* call after having waited for the second.
C29_Witness ==
  /\ arrived = 4
  /\ pc[4] = "waiting" /\ awaiting[4] = 3
  /\ pc[3] = "calling" /\ awaiting[3] = 2
  /\ pc[2] = "returned" /\ awaiting[2] = 1
  /\ body[3].author # body[4].author

\* C30: while a turn of session s is in its critical section sessionLocks has
\* an entry for s, and the release step of a turn removes its own promise
\* only, never the promise another turn in flight has installed.
C30_LockMapConsistent ==
  /\ [](\A r \in 1..arrived : InCriticalSection(r) => MapHas(sessionLocks, Sid(r)))
  /\ [][\A r \in 1..arrived :
          (pc[r] = "calling" /\ pc'[r] # "calling" /\ MapHas(sessionLocks, Sid(r)))
            => sessionLocks[Sid(r)] = r]_vars

\* The step in which turn r saves the model's reply.
SavesItsReply(r) == r \in 1..arrived /\ pc[r] = "calling" /\ pc'[r] = "returned"

\* The messages stored after the history turn r read.
StoredSinceRead(r) ==
  SubSeq(History(Sid(r)), Len(history[r]) + 1, Len(History(Sid(r))))

\* C31: for every ai message stored, the history sent to the model to produce
\* it is exactly the sequence of messages that precede it in the transcript.
C31_ReplyFollowsItsContext ==
  [][\A r \in 1..arrived :
       SavesItsReply(r)
         => /\ History(Sid(r))' = Append(History(Sid(r)), History(Sid(r))'[Len(History(Sid(r))')])
            /\ history[r] = History(Sid(r))]_vars

\* C31, amended: the history sent to the model is a prefix of the messages
\* that precede the reply; what is stored between them are human messages of
\* requests that arrived after the turn read the history, and replies of other
\* turns of the session.
C31_ContextIsPrefixOfWhatPrecedes ==
  [][\A r \in 1..arrived :
       SavesItsReply(r)
         => /\ Len(History(Sid(r))') = Len(History(Sid(r))) + 1
            /\ History(Sid(r))'[Len(History(Sid(r))')].author = "ai"
            /\ IsPrefix(history[r], History(Sid(r)))
            /\ \A i \in 1..Len(StoredSinceRead(r)) :
                 LET m == StoredSinceRead(r)[i]
                 IN  \/ \E q \in (r + 1)..arrived : IsHumanMessageOf(m, q)
                     \/ /\ m.author = "ai"
                        /\ \E q \in 1..arrived :
                             /\ q # r /\ Sid(q) = Sid(r) /\ pc[q] = "returned"
                             /\ m.content = result[q].content]_vars

\* C31 witness: the first turn saved its reply after the human message of a
\* second request, which the model had not seen, had been stored.
C31_Witness ==
  /\ arrived >= 2 /\ Sid(1) = Sid(2)
  /\ pc[1] = "returned" /\ pc[2] = "calling"
  /\ Len(history[1]) = 1
  /\ IsHumanMessageOf(History(Sid(1))[2], 2)
  /\ History(Sid(1))[3].author = "ai"

\* The ai-authored messages among msgs.
AiMessages(msgs) == {i \in 1..Len(msgs) : msgs[i].author = "ai"}

\* C32: in every state between two steps, where another task can look, a
\* session has as many usage records as ai-authored messages, every session
\* with a usage record exists in the store, and the usage summary a query gets
\* counts as many calls as the transcript had ai messages.
C32_LedgerAgreesWithTranscript ==
  /\ \A s \in SessionIds :
       /\ Len(UsageRecords(s)) = Cardinality(AiMessages(History(s)))
       /\ MapHas(usageStore, s) => MapHas(sessions, s) /\ MapHas(messages, s)
  /\ lastOp.op = "getSessionUsage" =>
       lastOp.returned[1].apiCalls
         = Cardinality(AiMessages(getMessagesOrEmpty(lastOp.before.messages, lastOp.sessionId)))

\* C32 witness: the usage summary was asked after one turn had returned and
\* one had thrown, while a third was at its model call, and it counted one call.
C32_Witness ==
  /\ lastOp.op = "getSessionUsage" /\ lastOp.sessionId = "s1"
  /\ lastOp.returned[1].apiCalls = 1
  /\ Cardinality(AiMessages(History("s1"))) = 1
  /\ \E r \in 1..arrived : pc[r] = "threw"
  /\ \E r \in 1..arrived : pc[r] = "calling"

\* C33: the session map and the message map have the same keys in every
\* reachable state, so addMessage succeeds exactly for the ids for which
\* getSession gives a session.
C33_StoreKeysAgree ==
  /\ DOMAIN sessions = DOMAIN messages
  /\ \A s \in DOMAIN sessions : sessions[s].id = s
  /\ lastOp.op = "addMessage" =>
       (lastOp.error = NoError <=> MapHas(lastOp.before.sessions, lastOp.sessionId))

\* C33 witness: addMessage succeeded for the one session there is, which a
\* saveMessage call had created.
C33_Witness ==
  /\ lastOp.op = "addMessage" /\ lastOp.error = NoError
  /\ DOMAIN sessions = {lastOp.sessionId}
  /\ DOMAIN messages = {lastOp.sessionId}
  /\ Len(messages[lastOp.sessionId]) = 2
  /\ sessions[lastOp.sessionId].topic = DefaultTopic

\* C34: for every author a stored message can have, a request entry carries
\* the label 'Partner B: ' only if the message is partner_b's and the label
\* 'Partner A: ' only if it is partner_a's.
C34_LabelIdentifiesAuthor ==
  lastOp.op = "formatMessagesForClaude" =>
    LET msgs == getMessagesOrEmpty(lastOp.before.messages, lastOp.sessionId)
        entries == lastOp.returned[1]
    IN  /\ Len(entries) = Len(msgs)
        /\ \A i \in 1..Len(msgs) :
             /\ entries[i].label = "Partner B: " => msgs[i].author = "partner_b"
             /\ entries[i].label = "Partner A: " => msgs[i].author = "partner_a"

====
